---- MODULE Spec2Model ----
(***************************************************************************)
(* Model of the deep-research engine: the recursive node walk of           *)
(* DeepResearchNode (agent.py) and the TaskDependencyResolver              *)
(* (decomposer.py).  Scores are modelled in tenths (0.6 is 6).            *)
(***************************************************************************)
EXTENDS Integers, Sequences, FiniteSets, TLC

\* ---------------------------------------------------------------- bounds
MaxDepthBound == 3
MaxItems == 6
MaxDecompositions == 2
MaxLiveDepth == 2
MaxSections == 3
MaxSubsections == 2
MaxTasks == 3
MaxDeps == 2
MaxJobs == 2
MaxQueries == 2

\* ------------------------------------------------------ program constants
COMPLEXITY_THRESHOLD == 6
MaxSubtasks == 5
DEFAULT_MODEL == "deepseek-chat"
ErrorFallbackScore == 5
KeywordComplexScore == 7
KeywordSimpleScore == 3

TaskIds == <<"task1", "task2", "task3", "task4", "task5", "task6", "task7", "task8">>
ModelIds == {"deepseek-chat", "gpt-4o-mini"}
TaskNames == <<"a", "b", "c", "d", "e">>

VARIABLES
    max_recursion_depth,  \* DeepResearchNode.max_recursion_depth, shared by the whole tree
    knowledge_base,       \* the dict shared by all nodes (or None)
    via_agent,            \* TRUE when the root was created by DeepResearchAgent.research
    stack,                \* the chain of nodes whose process_task is in progress, root first
    retrieval,            \* what _enhance_with_retrieval did in the step just taken, if it ran
    assessed,             \* what _assess_complexity returned in the step just taken, if it ran
    assess_reply,         \* what GPT answered to that assessment ("none": no call was made)
    root_assessment,      \* complexity_assessment of the root's process_task (line 102)
    decomposed,           \* what _decompose_task returned in the step just taken, if it ran
    returned,             \* what the process_task that finished in the step just taken produced
    decompositions,       \* number of nodes decomposed so far in this walk
    tasks,                \* TaskDependencyResolver: the input list
    rpc,                  \* TaskDependencyResolver: position
    sorted_ids,           \* TaskDependencyResolver: result of _topological_sort
    fallback,             \* TaskDependencyResolver: the original-order branch was taken
    ordered,              \* TaskDependencyResolver: result of resolve_execution_order
    impl,                 \* who writes the report: DeepResearchAgent or OutputOrganizer
    report_model,         \* self.model of the report writer
    qpc,                  \* position of research / organize
    research_results,     \* kind of the result the root's process_task gave
    outline_reply,        \* what GPT answered to the outline call
    outline,              \* the outline _create_outline returned
    content,              \* content["sections"] of _generate_content
    current,              \* section_content of the top-level section being generated
    prompt,               \* the prompt of the section call made in the step just taken
    gpt_call,             \* the report's GPT call of the step just taken: request outcome, reply
    progress_events,      \* the progress values delivered to progress_callback so far
    task_storage,         \* research_assistant: schemas.task_storage, task id -> Task
    calls                 \* research_assistant: the handler call in progress on each task

treeVars == <<max_recursion_depth, knowledge_base, via_agent, stack, retrieval, assessed,
              assess_reply,
              root_assessment,
              decomposed, returned,
              decompositions>>
orderVars == <<tasks, rpc, sorted_ids, fallback, ordered>>
reportVars == <<impl, report_model, qpc, research_results, outline_reply, outline, content,
                current, prompt, gpt_call, progress_events>>
assistantVars == <<task_storage, calls>>
vars == <<max_recursion_depth, knowledge_base, via_agent, stack, retrieval, assessed,
              assess_reply,
              root_assessment,
          decomposed, returned,
          decompositions,
          tasks, rpc, sorted_ids, fallback, ordered,
          impl, report_model, qpc, research_results, outline_reply, outline, content,
          current, prompt, gpt_call, progress_events,
          task_storage, calls>>

\* ------------------------------------------------------------- utilities
EmptyMap == [k \in {} |-> "none"]

Put(f, k, v) == [x \in (DOMAIN f) \cup {k} |-> IF x = k THEN v ELSE f[x]]

Range(s) == {s[i] : i \in DOMAIN s}

Prefix(s, n) == IF Len(s) > n THEN SubSeq(s, 1, n) ELSE s

\* ------------------------------------------------------ CompletionService
\* a model id that is not a key of gptservice.models
UnknownModel == "no-such-model"

\* What happens to the request of one call:
\*   message         the API answers with a message that has a content
\*   null_content    the API answers with a message whose content is null
\*   no_message      the API answers without a message
\*   request_failed  requests raises (timeout, connection error, HTTP status)
\*   not_sent        the model id is unknown, no request is made
TransportOutcomes(model) ==
    IF model \notin ModelIds THEN {"not_sent"}
    ELSE IF model = "deepseek-chat" THEN {"message", "null_content", "request_failed"}
    ELSE {"message", "null_content", "no_message", "request_failed"}

\* GPT, lines 44-64, with call_bianxie_api and call_deepseek_api: the
\* ValueError for an unknown model and the re-raised RequestException are
\* caught by GPT's own except branch, which returns a message with the error
\* as its content
GPT(model, outcome) ==
    IF outcome \in {"not_sent", "request_failed"} THEN "error_text"
    ELSE IF outcome = "message" THEN "completion"
    ELSE outcome

\* What a caller of GPT can get back.  GPT catches every exception and turns
\* it into a message whose content is an error text; the deepseek branch
\* always builds a dict but its content may be null; the generic branch
\* returns the "message" member of the API answer, which may be absent.
GPTReplies(model) == {GPT(model, outcome) : outcome \in TransportOutcomes(model)}

\* response["content"] raises for a reply that is None
ContentRaises(status) == status = "no_message"

\* --------------------------------------------------------- knowledge base
NoneKB == [is_none |-> TRUE, entries |-> EmptyMap]
EmptyKB == [is_none |-> FALSE, entries |-> EmptyMap]
SeededKB == [is_none |-> FALSE, entries |-> Put(EmptyMap, <<"seed">>, "simple")]

\* Python truthiness of the knowledge base: None and the empty dict are falsy
Falsy(kb) == kb.is_none \/ DOMAIN kb.entries = {}

\* DeepResearchAgent.__init__: knowledge_base or {}
AgentKnowledgeBase(given) == IF Falsy(given) THEN EmptyKB ELSE given

StoreInKnowledgeBase(kb, node_id, task_type) ==
    IF Falsy(kb) THEN kb
    ELSE [kb EXCEPT !.entries = Put(@, node_id, task_type)]

\* ------------------------------------------------ _enhance_with_retrieval
NoRetrieval ==
    [web |-> "none", kb |-> "none", searches |-> <<>>, keys |-> {}, raised |-> FALSE]

\* process_task, line 96, and _enhance_with_retrieval, line 176
RetrievalGate(depth) == depth <= 1

\* What the two searches can do: the external search finds something or fails
\* (the tool raises, or its answer is not JSON); the scan of the knowledge
\* base finds something or fails (json.dumps of an entry raises, or the store
\* is no dict).  A falsy knowledge base is not scanned.
RetrievalOutcomes(depth, kb) ==
    IF ~RetrievalGate(depth) THEN {[web |-> "none", kb |-> "none"]}
    ELSE IF Falsy(kb) THEN {[web |-> w, kb |-> "skipped"] : w \in {"results", "failed"}}
    ELSE {[web |-> "results", kb |-> "results"], [web |-> "failed", kb |-> "results"],
          [web |-> "results", kb |-> "failed"]}

\* _web_search, lines 192-205: an exception becomes the empty list
WebSearch(outcome) == IF outcome = "failed" THEN "empty" ELSE outcome

\* _knowledge_base_search, lines 207-222: an exception is not caught here
KnowledgeBaseSearch(outcome) == IF outcome = "skipped" THEN "empty" ELSE outcome

EnhanceWithRetrieval_NoCatch(depth, outcome) ==
    IF ~RetrievalGate(depth) THEN NoRetrieval
    ELSE [web |-> outcome.web, kb |-> outcome.kb,
          searches |-> <<"web">> \o (IF outcome.kb = "skipped" THEN <<>> ELSE <<"kb">>),
          keys |-> (IF WebSearch(outcome.web) = "results" THEN {"web_search"} ELSE {})
                   \cup (IF KnowledgeBaseSearch(outcome.kb) = "results"
                         THEN {"kb_search"} ELSE {}),
          raised |-> KnowledgeBaseSearch(outcome.kb) = "failed"]

\* _enhance_with_retrieval, lines 171-190, called from process_task, lines
\* 95-99: the try block around both searches swallows what they raise
EnhanceWithRetrieval(depth, outcome) ==
    IF ~RetrievalGate(depth) THEN NoRetrieval
    ELSE [web |-> outcome.web, kb |-> outcome.kb,
          searches |-> <<"web">> \o (IF outcome.kb = "skipped" THEN <<>> ELSE <<"kb">>),
          keys |-> (IF WebSearch(outcome.web) = "results" THEN {"web_search"} ELSE {})
                   \cup (IF KnowledgeBaseSearch(outcome.kb) = "results"
                         THEN {"kb_search"} ELSE {}),
          raised |-> FALSE]

\* ---------------------------------------------------- _assess_complexity
NoAssessment == [is_complex |-> FALSE, has_score |-> FALSE, score |-> 0, path |-> "none"]

\* The shapes of a completion that lead _assess_complexity down different paths:
\*   json        a JSON object with is_complex, with or without complexity_score
\*   text        not JSON, a JSON object without is_complex, or a score that
\*               float() rejects with ValueError: the keyword heuristic decides
\*   type_error  JSON that is not an object, or a null score: TypeError
AssessBodies ==
    {[form |-> "json", is_complex |-> c, has_score |-> hs[1], score |-> hs[2], keyword |-> FALSE] :
        c \in BOOLEAN, hs \in {<<FALSE, 0>>, <<TRUE, 3>>, <<TRUE, 9>>}}
    \cup {[form |-> "text", is_complex |-> FALSE, has_score |-> FALSE, score |-> 0, keyword |-> k] :
        k \in BOOLEAN}
    \cup {[form |-> "type_error", is_complex |-> FALSE, has_score |-> FALSE, score |-> 0,
           keyword |-> FALSE]}

AssessReplies(model) ==
    {[status |-> "completion", body |-> b] : b \in AssessBodies}
    \cup {[status |-> st, body |-> b] :
            st \in GPTReplies(model) \ {"completion"},
            b \in {x \in AssessBodies : x.form = "text"}}

KeywordAssessment(hit) ==
    [is_complex |-> hit, has_score |-> TRUE,
     score |-> IF hit THEN KeywordComplexScore ELSE KeywordSimpleScore, path |-> "keyword"]

ErrorAssessment(depth) ==
    [is_complex |-> depth < 1, has_score |-> TRUE, score |-> ErrorFallbackScore, path |-> "error"]

StructuredAssessment(body) ==
    [is_complex |-> IF body.has_score /\ body.score < COMPLEXITY_THRESHOLD
                    THEN FALSE ELSE body.is_complex,
     has_score |-> body.has_score, score |-> body.score, path |-> "structured"]

ShortCircuit_AtMaxDepth(depth, max_depth) == depth >= max_depth

\* _assess_complexity, lines 226-228
ShortCircuit(depth, max_depth) == depth >= max_depth - 1

AssessComplexity_NoShortCircuit(depth, max_depth, reply) ==
    IF ContentRaises(reply.status) \/ reply.status = "null_content"
    THEN ErrorAssessment(depth)
    ELSE IF reply.status = "error_text"
    THEN KeywordAssessment(reply.body.keyword)
    ELSE IF reply.body.form = "json"
    THEN StructuredAssessment(reply.body)
    ELSE IF reply.body.form = "text"
    THEN KeywordAssessment(reply.body.keyword)
    ELSE ErrorAssessment(depth)

AssessComplexity(depth, max_depth, reply) ==
    IF ShortCircuit(depth, max_depth)
    THEN [is_complex |-> FALSE, has_score |-> FALSE, score |-> 0, path |-> "depth"]
    ELSE IF ContentRaises(reply.status) \/ reply.status = "null_content"
    THEN ErrorAssessment(depth)
    ELSE IF reply.status = "error_text"
    THEN KeywordAssessment(reply.body.keyword)
    ELSE IF reply.body.form = "json"
    THEN StructuredAssessment(reply.body)
    ELSE IF reply.body.form = "text"
    THEN KeywordAssessment(reply.body.keyword)
    ELSE ErrorAssessment(depth)

\* ------------------------------------------------------- _decompose_task
\* A subtask object: its id, and whether its description is a text (an object
\* whose description is null or a number passes the validation all the same).
Item(i, id_index, is_text) == [id |-> TaskIds[id_index], text |-> is_text]

PlainItems(n) == [i \in 1..n |-> Item(i, i, TRUE)]
DupItems(n) == [i \in 1..n |-> Item(i, IF i = 2 THEN 1 ELSE i, TRUE)]
BadItems(n) == [i \in 1..n |-> Item(i, i, i # 2)]

\* The shapes of a completion that lead _decompose_task down different rungs:
\*   json_list   a JSON array of objects that all have id and description
\*   regex       rejected by the parse or the validation, the regex finds n pairs
\*   garbage     not JSON, and the regex finds nothing
\*   non_list    JSON that is not an array, and the regex finds nothing
\*   invalid_element  a JSON array with an element that is not an object or
\*               lacks id or description, and the regex finds nothing
\* and the fence around it:
\*   none        the text is the content
\*   json        the text is inside ```json ... ```
\*   bare        the text is inside ``` ... ```
\*   tagged      the text is inside a fence with another info string (```JSON)
Fences == {"none", "json", "bare"}

\* a one-item array whose id is not the one the regex rung would give it
TaggedItems == <<Item(1, 2, TRUE)>>
PlainLengths == {0, 3, MaxItems}
DupLengths == {4}
BadLengths == {2}
RegexLengths == {1}

DecomposeBodies ==
    {[form |-> "json_list", fence |-> f, items |-> PlainItems(n)] :
        n \in PlainLengths, f \in Fences}
    \cup {[form |-> "json_list", fence |-> f, items |-> DupItems(n)] :
            n \in DupLengths, f \in Fences}
    \cup {[form |-> "json_list", fence |-> f, items |-> BadItems(n)] :
            n \in BadLengths, f \in Fences}
    \cup {[form |-> "json_list", fence |-> "tagged", items |-> TaggedItems]}
    \cup {[form |-> "regex", fence |-> "none", items |-> DupItems(n)] : n \in RegexLengths}
    \cup {[form |-> rejected, fence |-> "none", items |-> <<>>] :
            rejected \in {"garbage", "non_list", "invalid_element"}}

DecomposeReplies(model) ==
    {[status |-> "completion", body |-> b] : b \in DecomposeBodies}
    \cup {[status |-> st, body |-> [form |-> "garbage", fence |-> "none", items |-> <<>>]] :
            st \in GPTReplies(model) \ {"completion"}}

\* lines 342-349: which text goes to json.loads, and whether it parses. With
\* ```json in the content the text after it up to the next ``` is parsed; with
\* any other ``` the text between the first two ``` is parsed, info string
\* included; otherwise the whole content.
JsonPartParses(body) == body.form = "json_list" /\ body.fence # "tagged"

\* line 365: the regex runs over the whole content and matches the objects
\* whose id and description are both non-empty strings
RegexMatches(body) == SelectSeq(body.items, LAMBDA item : item.text)

CannedSubtasks == PlainItems(3)

\* lines 366-370: the pairs the regex found, renumbered task1, task2, ...
RegexSubtasks(matches) == [i \in DOMAIN matches |-> Item(i, i, TRUE)]

DecomposeTask(reply) ==
    IF reply.status # "completion"
    THEN [rung |-> "canned", items |-> CannedSubtasks]
    ELSE IF JsonPartParses(reply.body)
    THEN [rung |-> "json", items |-> reply.body.items]
    ELSE IF RegexMatches(reply.body) # <<>>
    THEN [rung |-> "regex", items |-> RegexSubtasks(RegexMatches(reply.body))]
    ELSE [rung |-> "canned", items |-> CannedSubtasks]

\* lines 355-384: what the descriptions of the canned subtasks are built from.
\* The validation loop `for task in subtasks` rebinds the name task, so after
\* it has rejected an element the f-strings quote that element.
CannedAbout(reply) ==
    IF DecomposeTask(reply).rung # "canned" THEN "none"
    ELSE IF reply.status = "completion" /\ reply.body.form = "invalid_element" THEN "element"
    ELSE "task"

Truncate_NoCap(subtasks) == subtasks

\* process_task, lines 112-113
Truncate(subtasks) == Prefix(subtasks, MaxSubtasks)

\* ------------------------------------------------------------ _solve_task
SolveTask_NoCatch(status) == IF ContentRaises(status) THEN "raised" ELSE status

\* lines 453-462: the content of the reply, or the text of the exception
SolveTask(status) == IF ContentRaises(status) THEN "degraded" ELSE status

\* ------------------------------------------------------------------ nodes
NewNode_ParentDepth(node_id, depth, model) ==
    [node_id |-> node_id, depth |-> IF depth = 0 THEN 0 ELSE depth - 1, model |-> model,
     pc |-> "start", decomposer_output |-> <<>>,
     subtasks |-> <<>>, results |-> EmptyMap, child_nodes |-> <<>>, outcomes |-> <<>>,
     trace |-> <<>>, gpt_calls |-> <<>>]

\* DeepResearchNode.__init__, lines 36-58
NewNode(node_id, depth, model) ==
    [node_id |-> node_id, depth |-> depth, model |-> model, pc |-> "start",
     decomposer_output |-> <<>>,
     subtasks |-> <<>>, results |-> EmptyMap, child_nodes |-> <<>>, outcomes |-> <<>>,
     trace |-> <<>>, gpt_calls |-> <<>>]

NoResult ==
    [kind |-> "none", node |-> NewNode(<<>>, 0, DEFAULT_MODEL), solution |-> "none",
     solve_reply |-> "none", summary |-> "none", fault |-> "none"]

AtMaxDepth_Strict(depth, max_depth) == depth > max_depth

\* process_task, line 76
AtMaxDepth(depth, max_depth) == depth >= max_depth

Top == stack[Len(stack)]
Below == SubSeq(stack, 1, Len(stack) - 1)

Collect_DropsError(parent, result) ==
    LET task_id == parent.subtasks[Len(parent.child_nodes)].id
    IN [parent EXCEPT
            !.results = IF result.kind = "raised" THEN @ ELSE Put(@, task_id, result.kind),
            !.outcomes = Append(@, result.kind),
            !.pc = "loop"]

\* _process_subtasks, lines 413-421: what the parent does with the outcome of
\* child_node.process_task
Collect(parent, result) ==
    LET task_id == parent.subtasks[Len(parent.child_nodes)].id
    IN [parent EXCEPT
            !.results = Put(@, task_id, IF result.kind = "raised" THEN "error" ELSE result.kind),
            !.outcomes = Append(@, result.kind),
            !.pc = "loop"]

Unwind_NoCatch(below, result) ==
    IF below = <<>> \/ result.kind = "raised" THEN <<>>
    ELSE [below EXCEPT ![Len(below)] = Collect(@, result)]

\* the stack after the top node's process_task ended with result
Unwind(below, result) ==
    IF below = <<>> THEN <<>>
    ELSE [below EXCEPT ![Len(below)] = Collect(@, result)]

NoDecomposition ==
    [rung |-> "none", items |-> <<>>, form |-> "none", fence |-> "none", content |-> <<>>,
     about |-> "none"]

\* the outcomes the completion service can make each method produce
Assessments(node, max_depth) ==
    {[assessment |-> AssessComplexity(node.depth, max_depth, r),
      reply |-> IF ShortCircuit(node.depth, max_depth) THEN "none" ELSE r.status] :
        r \in AssessReplies(node.model)}

Decompositions(node) ==
    {[rung |-> DecomposeTask(r).rung, items |-> DecomposeTask(r).items,
      form |-> r.body.form, fence |-> r.body.fence, content |-> r.body.items,
      about |-> CannedAbout(r)] :
        r \in DecomposeReplies(node.model)}

Solutions(node) == {SolveTask(r) : r \in GPTReplies(node.model)}

\* ------------------------------------------------------------ process_task
\* lines 76-85: the node is at max depth
SolveAtMaxDepth ==
    /\ stack # <<>>
    /\ Top.pc = "start"
    /\ AtMaxDepth(Top.depth, max_recursion_depth)
    /\ retrieval' = NoRetrieval
    /\ assessed' = NoAssessment
    /\ assess_reply' = "none"
    /\ decomposed' = NoDecomposition
    /\ UNCHANGED root_assessment
    /\ \E rs \in GPTReplies(Top.model) :
        LET node == [Top EXCEPT !.pc = "done",
                                !.trace = <<"_solve_task", "_store_in_knowledge_base">>,
                                !.gpt_calls = <<"solve">>]
            result == [kind |-> "simple", node |-> node, solution |-> SolveTask(rs),
                       solve_reply |-> rs, summary |-> "none", fault |-> "none"]
        IN /\ returned' = result
           /\ knowledge_base' =
                StoreInKnowledgeBase(knowledge_base, Top.node_id, "max_depth_reached")
           /\ stack' = Unwind(Below, result)
    /\ UNCHANGED <<max_recursion_depth, via_agent, decompositions, orderVars, assistantVars, reportVars>>

\* lines 87-99: the retrieval step of a node at depth <= 1
EnhanceContext ==
    /\ stack # <<>>
    /\ Top.pc = "start"
    /\ ~AtMaxDepth(Top.depth, max_recursion_depth)
    /\ RetrievalGate(Top.depth)
    /\ assessed' = NoAssessment
    /\ assess_reply' = "none"
    /\ decomposed' = NoDecomposition
    /\ UNCHANGED root_assessment
    /\ \E o \in RetrievalOutcomes(Top.depth, knowledge_base) :
        LET enhanced == EnhanceWithRetrieval(Top.depth, o)
            node == [Top EXCEPT !.pc = "retrieved", !.trace = <<"_enhance_with_retrieval">>]
            failure == [kind |-> "raised", node |-> [node EXCEPT !.pc = "done"],
                        solution |-> "none", solve_reply |-> "none", summary |-> "none",
                        fault |-> "retrieval"]
        IN /\ retrieval' = enhanced
           /\ IF enhanced.raised
              THEN /\ stack' = Unwind(Below, failure)
                   /\ returned' = failure
              ELSE /\ stack' = Below \o <<node>>
                   /\ returned' = NoResult
    /\ UNCHANGED <<max_recursion_depth, via_agent, knowledge_base, decompositions, orderVars, assistantVars,
                   reportVars>>

\* lines 101-102 and 131-144: the assessment, then the direct solve
AssessAndSolve ==
    /\ stack # <<>>
    /\ Top.pc = (IF RetrievalGate(Top.depth) THEN "retrieved" ELSE "start")
    /\ ~AtMaxDepth(Top.depth, max_recursion_depth)
    /\ retrieval' = NoRetrieval
    /\ decomposed' = NoDecomposition
    /\ \E a \in Assessments(Top, max_recursion_depth), rs \in GPTReplies(Top.model) :
        LET node == [Top EXCEPT
                        !.pc = "done",
                        !.trace = @ \o <<"_assess_complexity", "_solve_task",
                                         "_store_in_knowledge_base">>,
                        !.gpt_calls = (IF a.reply = "none" THEN <<>> ELSE <<"assess">>)
                                      \o <<"solve">>]
            result == [kind |-> "simple", node |-> node, solution |-> SolveTask(rs),
                       solve_reply |-> rs, summary |-> "none", fault |-> "none"]
        IN /\ ~(a.assessment.is_complex /\ Top.depth < max_recursion_depth)
           /\ assess_reply' = a.reply
           /\ assessed' = a.assessment
           /\ root_assessment' = IF Top.depth = 0 THEN a.assessment ELSE root_assessment
           /\ returned' = result
           /\ knowledge_base' = StoreInKnowledgeBase(knowledge_base, Top.node_id, "simple")
           /\ stack' = Unwind(Below, result)
    /\ UNCHANGED <<max_recursion_depth, via_agent, decompositions, orderVars, assistantVars, reportVars>>

\* lines 101-113: the assessment, the decomposition and the cap on the fan-out
AssessAndDecompose ==
    /\ stack # <<>>
    /\ Top.pc = (IF RetrievalGate(Top.depth) THEN "retrieved" ELSE "start")
    /\ ~AtMaxDepth(Top.depth, max_recursion_depth)
    /\ decompositions < MaxDecompositions
    /\ decompositions' = decompositions + 1
    /\ retrieval' = NoRetrieval
    /\ returned' = NoResult
    /\ \E a \in Assessments(Top, max_recursion_depth), d \in Decompositions(Top) :
        LET node == [Top EXCEPT
                        !.pc = "loop",
                        !.decomposer_output = d.items,
                        !.subtasks = Truncate(d.items),
                        !.trace = @ \o <<"_assess_complexity", "_decompose_task",
                                       "_process_subtasks">>,
                        !.gpt_calls = (IF a.reply = "none" THEN <<>> ELSE <<"assess">>)
                                      \o <<"decompose">>]
        IN /\ a.assessment.is_complex /\ Top.depth < max_recursion_depth
           /\ assess_reply' = a.reply
           /\ assessed' = a.assessment
           /\ root_assessment' = IF Top.depth = 0 THEN a.assessment ELSE root_assessment
           /\ decomposed' = d
           /\ stack' = Below \o <<node>>
    /\ UNCHANGED <<max_recursion_depth, via_agent, knowledge_base, orderVars, assistantVars, reportVars>>

\* _process_subtasks, lines 391-414: the next subtask gets a child node
SpawnChild ==
    /\ stack # <<>>
    /\ Top.pc = "loop"
    /\ Len(Top.child_nodes) < Len(Top.subtasks)
    /\ returned' = NoResult
    /\ retrieval' = NoRetrieval
    /\ assessed' = NoAssessment
    /\ assess_reply' = "none"
    /\ decomposed' = NoDecomposition
    /\ UNCHANGED root_assessment
    /\ LET subtask == Top.subtasks[Len(Top.child_nodes) + 1]
           child_id == Append(Top.node_id, subtask.id)
       IN /\ subtask.text
          /\ stack' = Below \o <<[Top EXCEPT !.pc = "await", !.child_nodes = Append(@, child_id)],
                                 NewNode(child_id, Top.depth + 1, DEFAULT_MODEL)>>
    /\ UNCHANGED <<max_recursion_depth, via_agent, knowledge_base, decompositions, orderVars, assistantVars, reportVars>>

\* _process_subtasks, lines 392-395: task_desc[:50] on a description that is
\* not a text raises outside the try block, and process_task ends with it
SubtaskRaises ==
    /\ stack # <<>>
    /\ Top.pc = "loop"
    /\ Len(Top.child_nodes) < Len(Top.subtasks)
    /\ ~Top.subtasks[Len(Top.child_nodes) + 1].text
    /\ LET result == [kind |-> "raised", node |-> [Top EXCEPT !.pc = "done"],
                      solution |-> "none", solve_reply |-> "none", summary |-> "none",
                      fault |-> "description"]
       IN /\ returned' = result
          /\ stack' = Unwind(Below, result)
    /\ retrieval' = NoRetrieval
    /\ assessed' = NoAssessment
    /\ assess_reply' = "none"
    /\ decomposed' = NoDecomposition
    /\ UNCHANGED root_assessment
    /\ UNCHANGED <<max_recursion_depth, via_agent, knowledge_base, decompositions, orderVars, assistantVars, reportVars>>

\* lines 115-130: all subtasks are processed; store, summarize and return
Summarize ==
    /\ stack # <<>>
    /\ Top.pc = "loop"
    /\ Len(Top.child_nodes) = Len(Top.subtasks)
    /\ retrieval' = NoRetrieval
    /\ assessed' = NoAssessment
    /\ assess_reply' = "none"
    /\ decomposed' = NoDecomposition
    /\ UNCHANGED root_assessment
    /\ knowledge_base' = StoreInKnowledgeBase(knowledge_base, Top.node_id, "complex")
    /\ \E rs \in GPTReplies(Top.model) :
        LET node == [Top EXCEPT !.pc = "done",
                                !.trace = @ \o <<"_store_in_knowledge_base",
                                                 "_summarize_solutions">>,
                                !.gpt_calls = Append(@, "summarize")]
            result == IF ContentRaises(rs)
                      THEN [kind |-> "raised", node |-> node, solution |-> "none",
                            solve_reply |-> "none", summary |-> "none", fault |-> "summary"]
                      ELSE [kind |-> "complex", node |-> node, solution |-> "none",
                            solve_reply |-> "none", summary |-> rs, fault |-> "none"]
        IN /\ returned' = result
           /\ stack' = Unwind(Below, result)
    /\ UNCHANGED <<max_recursion_depth, via_agent, decompositions, orderVars, assistantVars, reportVars>>

\* ----------------------------------------------------------- report state
SectionNames == <<"section1", "section2", "section3", "section4", "section5">>
SubsectionNames == <<"sub1", "sub2", "sub3", "sub4">>

\* output_organizer.py, lines 143-172
DefaultSectionIds == <<"introduction", "methodology", "findings", "analysis", "conclusion">>

\* An outline section: its id and the ids of its subsections (which have none
\* of their own). An outline is usable when it has the keys title and sections.
OutlineSection(id, subsections) == [id |-> id, subsections |-> subsections]

\* n sections named in order, the at-th of them (if any) with subs subsections
ShapedSections(n, at, subs) ==
    [i \in 1..n |->
        OutlineSection(SectionNames[i],
                       IF i = at THEN [j \in 1..subs |-> SubsectionNames[j]] ELSE <<>>)]

OutlineShapes ==
    {ShapedSections(n, 0, 0) : n \in 0..MaxSections}
    \cup {ShapedSections(n, at, subs) :
            n \in 1..MaxSections, at \in 1..MaxSections, subs \in 1..MaxSubsections}

\* agent.py, lines 645, 648 and 653
EmptyOutline == [usable |-> TRUE, sections |-> <<>>]

\* output_organizer.py, _get_default_outline
DefaultOutline ==
    [usable |-> TRUE,
     sections |-> [i \in DOMAIN DefaultSectionIds |-> OutlineSection(DefaultSectionIds[i], <<>>)]]

\* a JSON object without the key sections
KeylessOutline == [usable |-> FALSE, sections |-> <<>>]

NoOutline == [usable |-> FALSE, sections |-> <<>>]
NoOutlineReply == [status |-> "none", form |-> "none", fence |-> "none", sections |-> <<>>]
NoSection == [id |-> "none", content |-> "none", subsections |-> <<>>]
NoPrompt ==
    [level |-> "none", index |-> 0, id |-> "none", appended |-> 0, excerpts |-> <<>>,
     background |-> FALSE]
NoCall == [outcome |-> "none", reply |-> "none"]

ReportIdle ==
    /\ impl = "none"
    /\ report_model = DEFAULT_MODEL
    /\ qpc = "idle"
    /\ research_results = "none"
    /\ outline_reply = NoOutlineReply
    /\ outline = NoOutline
    /\ content = <<>>
    /\ current = NoSection
    /\ prompt = NoPrompt
    /\ gpt_call = NoCall
    /\ progress_events = <<>>

\* ---------------------------------------------- research_assistant: state
Jobs == 1..MaxJobs

\* A Task of schemas.task_storage. final_queries is None until it is assigned;
\* every reader tests it for truth only (orchestrator.py 46, 134, 136), so None
\* and the empty list are both the empty sequence here.
NoTask ==
    [status |-> "absent", message |-> "none", clarification_prompt |-> "none",
     final_queries |-> <<>>, results_path |-> "none"]

NewTask == [NoTask EXCEPT !.status = "pending", !.message = "received"]

NoHandler == [op |-> "none", pc |-> "none"]

AssistantIdle ==
    /\ task_storage = [j \in Jobs |-> NoTask]
    /\ calls = [j \in Jobs |-> NoHandler]

\* ------------------------------------------------------------------- Init
OrderIdle ==
    /\ tasks = <<>>
    /\ rpc = "idle"
    /\ sorted_ids = <<>>
    /\ fallback = FALSE
    /\ ordered = <<>>

\* DeepResearchAgent.__init__ and research (lines 544-550) create the root with
\* the default model; a node can also be constructed directly.
Init ==
    /\ max_recursion_depth \in 0..MaxDepthBound
    /\ \/ /\ via_agent = TRUE
          /\ \E given \in {NoneKB, EmptyKB, SeededKB} :
                knowledge_base = AgentKnowledgeBase(given)
          /\ stack = <<NewNode(<<"root">>, 0, DEFAULT_MODEL)>>
       \/ /\ via_agent = FALSE
          /\ knowledge_base = NoneKB
          /\ \E model \in ModelIds \ {DEFAULT_MODEL} :
                stack = <<NewNode(<<"root">>, 0, model)>>
    /\ retrieval = NoRetrieval
    /\ assessed = NoAssessment
    /\ assess_reply = "none"
    /\ root_assessment = NoAssessment
    /\ decomposed = NoDecomposition
    /\ returned = NoResult
    /\ decompositions = 0
    /\ OrderIdle
    /\ ReportIdle
    /\ AssistantIdle

Next ==
    \/ SolveAtMaxDepth
    \/ EnhanceContext
    \/ AssessAndSolve
    \/ AssessAndDecompose
    \/ SpawnChild
    \/ SubtaskRaises
    \/ Summarize

Spec == Init /\ [][Next]_vars

\* The walk is one chain of awaits (process_task awaits each method, and
\* _process_subtasks awaits each child in turn): when every awaited call
\* returns or fails, the step that waits for it is taken.
\* A store that takes entries keeps one for every node processed, so the walk
\* with such a store goes one level less deep than the walk without.
InitLive ==
    /\ Init
    /\ max_recursion_depth <= MaxLiveDepth
    /\ ~Falsy(knowledge_base) => max_recursion_depth < MaxLiveDepth

SpecLive == InitLive /\ [][Next]_vars /\ WF_vars(Next)

\* ------------------------------------------------- TaskDependencyResolver
NamesInUse == {TaskNames[i] : i \in 1..MaxTasks}

DepSets == {d \in SUBSET NamesInUse : Cardinality(d) <= MaxDeps}

\* the task lists of length n with pairwise distinct ids: the i-th task is
\* named by its position, and its dependencies are any of the names in use
\* (earlier tasks, later tasks, itself, or names the list does not contain),
\* which gives every input order up to a renaming of the ids
TaskLists(n) ==
    {[i \in 1..n |-> [id |-> TaskNames[i], depends_on |-> d[i]]] : d \in [1..n -> DepSets]}

\* resolve_execution_order, line 143; the keys are in input order
GraphKeys(ts) == [i \in DOMAIN ts |-> ts[i].id]
Graph(ts) == [k \in Range(GraphKeys(ts)) |-> (CHOOSE i \in DOMAIN ts : ts[i].id = k)]

DependsOn(ts, k) == ts[Graph(ts)[k]].depends_on

\* _topological_sort, lines 162-166
InDegree(ts) ==
    [x \in Range(GraphKeys(ts)) |->
        Cardinality({n \in Range(GraphKeys(ts)) : x \in DependsOn(ts, n)})]

\* _topological_sort, lines 173-182
RECURSIVE KahnLoop(_, _, _, _)
KahnLoop(ts, in_degree, queue, sorted_result) ==
    IF queue = <<>> THEN sorted_result
    ELSE LET node == Head(queue)
             dependencies == SelectSeq(GraphKeys(ts), LAMBDA n : node \in DependsOn(ts, n))
             updated == [x \in DOMAIN in_degree |->
                            IF node \in DependsOn(ts, x) THEN in_degree[x] - 1 ELSE in_degree[x]]
             ready == SelectSeq(dependencies, LAMBDA d : updated[d] = 0)
         IN KahnLoop(ts, updated, Tail(queue) \o ready, Append(sorted_result, node))

TopologicalSort_ReversedFallback(ts) ==
    LET in_degree == InDegree(ts)
        queue == SelectSeq(GraphKeys(ts), LAMBDA n : in_degree[n] = 0)
        sorted_result == KahnLoop(ts, in_degree, queue, <<>>)
        keys == GraphKeys(ts)
    IN IF Len(sorted_result) # Len(keys)
       THEN [ids |-> [i \in DOMAIN keys |-> keys[Len(keys) + 1 - i]], fallback |-> TRUE]
       ELSE [ids |-> sorted_result, fallback |-> FALSE]

\* _topological_sort, lines 152-189
TopologicalSort(ts) ==
    LET in_degree == InDegree(ts)
        queue == SelectSeq(GraphKeys(ts), LAMBDA n : in_degree[n] = 0)
        sorted_result == KahnLoop(ts, in_degree, queue, <<>>)
    IN IF Len(sorted_result) # Len(GraphKeys(ts))
       THEN [ids |-> GraphKeys(ts), fallback |-> TRUE]
       ELSE [ids |-> sorted_result, fallback |-> FALSE]

\* resolve_execution_order, lines 130-149, as a function of the task list
ResolveExecutionOrder(ts) ==
    LET sorted == TopologicalSort(ts).ids
    IN [i \in DOMAIN sorted |-> ts[Graph(ts)[sorted[i]]]]

\* resolve_execution_order, lines 140-146
SortIds ==
    /\ rpc = "start"
    /\ LET r == TopologicalSort(tasks)
       IN /\ sorted_ids' = r.ids
          /\ fallback' = r.fallback
    /\ rpc' = "sorted"
    /\ UNCHANGED <<tasks, ordered, treeVars, reportVars, assistantVars>>

\* resolve_execution_order, line 149
Reorder ==
    /\ rpc = "sorted"
    /\ ordered' = [i \in DOMAIN sorted_ids |-> tasks[Graph(tasks)[sorted_ids[i]]]]
    /\ rpc' = "done"
    /\ UNCHANGED <<tasks, sorted_ids, fallback, treeVars, reportVars, assistantVars>>

TreeIdle ==
    /\ max_recursion_depth = 0
    /\ knowledge_base = NoneKB
    /\ via_agent = FALSE
    /\ stack = <<>>
    /\ retrieval = NoRetrieval
    /\ assessed = NoAssessment
    /\ assess_reply = "none"
    /\ root_assessment = NoAssessment
    /\ decomposed = NoDecomposition
    /\ returned = NoResult
    /\ decompositions = 0

InitOrder ==
    /\ \E n \in 0..MaxTasks : tasks \in TaskLists(n)
    /\ rpc = "start"
    /\ sorted_ids = <<>>
    /\ fallback = FALSE
    /\ ordered = <<>>
    /\ TreeIdle
    /\ ReportIdle
    /\ AssistantIdle

NextOrder ==
    \/ SortIds
    \/ Reorder

SpecOrder == InitOrder /\ [][NextOrder]_vars

\* ------------------------------------------------ report: _create_outline
\* The shapes of the completion of the outline call:
\*   outline   a JSON object with title and a sections array, bare or fenced
\*   keyless   a JSON object without the key sections
\*   text      not JSON, and no fenced JSON in it
OutlineBodies ==
    {[form |-> "outline", fence |-> f, sections |-> o] : f \in Fences, o \in OutlineShapes}
    \cup {[form |-> "keyless", fence |-> "none", sections |-> <<>>],
          [form |-> "text", fence |-> "none", sections |-> <<>>]}

OutlineRepliesOn(model, outcome) ==
    IF GPT(model, outcome) = "completion"
    THEN {[status |-> "completion", form |-> b.form, fence |-> b.fence,
           sections |-> b.sections] : b \in OutlineBodies}
    ELSE {[status |-> GPT(model, outcome), form |-> "text", fence |-> "none",
           sections |-> <<>>]}

OutlineReplies(model) ==
    UNION {OutlineRepliesOn(model, outcome) : outcome \in TransportOutcomes(model)}

\* agent.py, lines 628-653: json.loads of the content, then of the first
\* ```json block; the parsed value is returned as it is
AgentCreateOutline(reply) ==
    IF reply.status # "completion" THEN EmptyOutline
    ELSE IF reply.form = "outline" /\ reply.fence \in {"none", "json"}
    THEN [usable |-> TRUE, sections |-> reply.sections]
    ELSE IF reply.form = "keyless" THEN KeylessOutline
    ELSE EmptyOutline

\* output_organizer.py, lines 102-132: fence stripping, json.loads, validation
OrganizerCreateOutline(reply) ==
    IF reply.status # "completion" THEN DefaultOutline
    ELSE IF reply.form = "outline"
    THEN [usable |-> TRUE, sections |-> reply.sections]
    ELSE DefaultOutline

CreateOutlineOf(who, reply) ==
    IF who = "agent" THEN AgentCreateOutline(reply) ELSE OrganizerCreateOutline(reply)

\* --------------------------------------- report: _generate_section_content
\* lines 788-792: the content stored for a call that did not raise
SectionContent(status) ==
    IF status = "completion" THEN "text"
    ELSE IF status = "null_content" THEN "null"
    ELSE status

LastTwo(previous) ==
    IF Len(previous) <= 2 THEN previous
    ELSE SubSeq(previous, Len(previous) - 1, Len(previous))

\* agent.py, lines 771-779: the previous sections whose excerpt goes into the
\* prompt; output_organizer.py builds its prompt without previous_sections
PreviousExcerpts(who, previous) ==
    IF who = "agent"
    THEN LET kept == SelectSeq(LastTwo(previous), LAMBDA sec : sec.content # "null")
         IN [i \in DOMAIN kept |-> kept[i].id]
    ELSE <<>>

\* agent.py, lines 726-735: the summary or the solution of the root's result
\* goes into the prompt when section_index is 0; output_organizer.py, lines
\* 241-252 and 290-309: also the solution into the sections findings and
\* analysis, and the summary into the section conclusion
Background(who, section_index, section_id, results) ==
    \/ section_index = 0
    \/ /\ who = "organizer"
       /\ \/ section_id \in {"findings", "analysis"} /\ results = "simple"
          \/ section_id = "conclusion" /\ results = "complex"

AppendSection_Front(sections, section_content) == <<section_content>> \o sections

\* _generate_content, line 701 (output_organizer.py, line 201)
AppendSection(sections, section_content) == Append(sections, section_content)

SectionProgress_PerSection(i, total_sections) == 85 + 10 * (i + 1)

\* _generate_content, line 690
SectionProgress(i, total_sections) ==
    85 + (10 * i) \div (IF total_sections > 1 THEN total_sections ELSE 1)

\* update_progress, lines 522-532: the callback gets the value
UpdateProgress(events, values) == IF impl = "agent" THEN events \o values ELSE events

\* ----------------------------------------------------- report: the actions
\* research, lines 537-553: the root node is created with the arguments of
\* lines 544-550
BeginResearch ==
    /\ qpc = "start"
    /\ qpc' = "walk"
    /\ progress_events' = UpdateProgress(progress_events, <<5, 10>>)
    /\ stack' = <<NewNode(<<"root">>, 0, DEFAULT_MODEL)>>
    /\ outline_reply' = NoOutlineReply
    /\ prompt' = NoPrompt
    /\ gpt_call' = NoCall
    /\ UNCHANGED <<impl, report_model, research_results, outline, content, current>>
    /\ UNCHANGED <<max_recursion_depth, knowledge_base, via_agent, retrieval, assessed,
                   assess_reply, root_assessment, decomposed, returned, decompositions>>
    /\ UNCHANGED <<orderVars, assistantVars>>

\* research, lines 556-560: the root's process_task returns or raises
RootReturns ==
    /\ qpc = "walk"
    /\ \E kind \in {"simple", "complex", "raised"} :
        IF kind = "raised"
        THEN /\ qpc' = "raised"
             /\ UNCHANGED <<research_results, progress_events>>
        ELSE /\ qpc' = "organize"
             /\ research_results' = kind
             /\ progress_events' = UpdateProgress(progress_events, <<75>>)
    /\ stack' = <<>>
    /\ outline_reply' = NoOutlineReply
    /\ prompt' = NoPrompt
    /\ gpt_call' = NoCall
    /\ UNCHANGED <<impl, report_model, outline, content, current>>
    /\ UNCHANGED <<max_recursion_depth, knowledge_base, via_agent, retrieval, assessed,
                   assess_reply, root_assessment, decomposed, returned, decompositions>>
    /\ UNCHANGED <<orderVars, assistantVars>>

\* _organize_output, lines 574-583, with _create_outline (organize, line 38)
CreateOutline ==
    /\ qpc = "organize"
    /\ \E outcome \in TransportOutcomes(report_model) :
        \E reply \in OutlineRepliesOn(report_model, outcome) :
            /\ outline_reply' = reply
            /\ outline' = CreateOutlineOf(impl, reply)
            /\ gpt_call' = [outcome |-> outcome, reply |-> reply.status]
    /\ progress_events' = UpdateProgress(progress_events, <<80, 82, 85>>)
    /\ qpc' = "content"
    /\ prompt' = NoPrompt
    /\ UNCHANGED <<impl, report_model, research_results, content, current>>
    /\ UNCHANGED <<treeVars, orderVars, assistantVars>>

\* _generate_content, lines 657-660 and 688: outline["title"] and
\* outline["sections"] on an outline that lacks the key
GenerateContentRaises ==
    /\ qpc = "content"
    /\ ~outline.usable
    /\ qpc' = "raised"
    /\ outline_reply' = NoOutlineReply
    /\ prompt' = NoPrompt
    /\ gpt_call' = NoCall
    /\ UNCHANGED <<impl, report_model, research_results, outline, content, current,
                   progress_events>>
    /\ UNCHANGED <<treeVars, orderVars, assistantVars>>

\* _generate_content, lines 688-701, with the call of _generate_section_content
\* for the next top-level section up to its own completion call
BeginSection ==
    /\ qpc = "content"
    /\ outline.usable
    /\ current = NoSection
    /\ Len(content) < Len(outline.sections)
    /\ LET i == Len(content)
           section == outline.sections[i + 1]
       IN /\ progress_events' =
                UpdateProgress(progress_events, <<SectionProgress(i, Len(outline.sections))>>)
          /\ prompt' = [level |-> "top", index |-> i, id |-> section.id, appended |-> Len(content),
                        excerpts |-> PreviousExcerpts(impl, content),
                        background |-> Background(impl, i, section.id, research_results)]
          /\ \E outcome \in TransportOutcomes(report_model) :
             LET rs == GPT(report_model, outcome)
             IN
             /\ gpt_call' = [outcome |-> outcome, reply |-> rs]
             /\ IF ContentRaises(rs)
                THEN /\ content' = AppendSection(content,
                                        [id |-> section.id, content |-> "placeholder",
                                         subsections |-> <<>>])
                     /\ current' = NoSection
                ELSE IF section.subsections = <<>>
                THEN /\ content' = AppendSection(content,
                                        [id |-> section.id, content |-> SectionContent(rs),
                                         subsections |-> <<>>])
                     /\ current' = NoSection
                ELSE /\ current' = [id |-> section.id, content |-> SectionContent(rs),
                                    subsections |-> <<>>]
                     /\ content' = content
    /\ outline_reply' = NoOutlineReply
    /\ UNCHANGED <<impl, report_model, qpc, research_results, outline>>
    /\ UNCHANGED <<treeVars, orderVars, assistantVars>>

\* _generate_section_content, lines 799-818: the next subsection of the section
\* in progress; after the last one the section is returned and appended
GenerateSubsection ==
    /\ qpc = "content"
    /\ current # NoSection
    /\ LET section == outline.sections[Len(content) + 1]
           j == Len(current.subsections)
           id == section.subsections[j + 1]
       IN /\ prompt' = [level |-> "sub", index |-> j, id |-> id, appended |-> j,
                        excerpts |-> PreviousExcerpts(impl, current.subsections),
                        background |-> Background(impl, j, id, research_results)]
          /\ \E outcome \in TransportOutcomes(report_model) :
                LET rs == GPT(report_model, outcome)
                    subsection_content ==
                        [id |-> id,
                         content |-> IF ContentRaises(rs) THEN "placeholder"
                                     ELSE SectionContent(rs)]
                    section_content ==
                        [current EXCEPT !.subsections = Append(@, subsection_content)]
                IN /\ gpt_call' = [outcome |-> outcome, reply |-> rs]
                   /\ IF j + 1 = Len(section.subsections)
                      THEN /\ content' = AppendSection(content, section_content)
                           /\ current' = NoSection
                      ELSE /\ current' = section_content
                           /\ content' = content
    /\ outline_reply' = NoOutlineReply
    /\ UNCHANGED <<impl, report_model, qpc, research_results, outline, progress_events>>
    /\ UNCHANGED <<treeVars, orderVars, assistantVars>>

\* _generate_content, line 703, and research, lines 566-569
FinishReport ==
    /\ qpc = "content"
    /\ outline.usable
    /\ current = NoSection
    /\ Len(content) = Len(outline.sections)
    /\ qpc' = "done"
    /\ progress_events' = UpdateProgress(progress_events, <<95>>)
    /\ outline_reply' = NoOutlineReply
    /\ prompt' = NoPrompt
    /\ gpt_call' = NoCall
    /\ UNCHANGED <<impl, report_model, research_results, outline, content, current>>
    /\ UNCHANGED <<treeVars, orderVars, assistantVars>>

\* DeepResearchAgent.research, or OutputOrganizer.organize on a given result
InitReport ==
    /\ report_model \in ModelIds \cup {UnknownModel}
    /\ \/ /\ impl = "agent"
          /\ qpc = "start"
          /\ research_results = "none"
       \/ /\ impl = "organizer"
          /\ qpc = "organize"
          /\ research_results \in {"simple", "complex"}
    /\ outline_reply = NoOutlineReply
    /\ outline = NoOutline
    /\ content = <<>>
    /\ current = NoSection
    /\ prompt = NoPrompt
    /\ gpt_call = NoCall
    /\ progress_events = <<>>
    /\ TreeIdle
    /\ OrderIdle
    /\ AssistantIdle

NextReport ==
    \/ BeginResearch
    \/ RootReturns
    \/ CreateOutline
    \/ GenerateContentRaises
    \/ BeginSection
    \/ GenerateSubsection
    \/ FinishReport

SpecReport == InitReport /\ [][NextReport]_vars

\* -------------------------------------------- research_assistant: handlers
Queries(n) == [i \in 1..n |-> i]

\* generate_final_queries_with_confirmation returns queries[:max_queries_per_task]
FinalQueries(n) == SubSeq(Queries(n), 1, IF n < MaxQueries THEN n ELSE MaxQueries)

\* run_background_task, up to the await of run_searches inside process_task
RunBackgroundTask(task) ==
    IF task.status = "pending" /\ task.final_queries # <<>>
    THEN [task |-> [task EXCEPT !.status = "processing", !.message = "searching",
                                !.results_path = "dir"],
          pc |-> "run_searches"]
    ELSE IF task.final_queries = <<>>
    THEN [task |-> [task EXCEPT !.status = "failed", !.message = "no_queries"],
          pc |-> "return"]
    ELSE [task |-> task, pc |-> "return"]

\* a client creates the task and calls start_new_task
SubmitTask(j) ==
    /\ task_storage[j] = NoTask
    /\ task_storage' = [task_storage EXCEPT ![j] = NewTask]
    /\ calls' = [calls EXCEPT ![j] = [op |-> "start_new_task", pc |-> "clarify"]]
    /\ UNCHANGED <<treeVars, orderVars, reportVars>>

\* a client answers the questions and calls continue_task; one call at a time
\* is in progress on a task
ConfirmTask(j) ==
    /\ task_storage[j] # NoTask
    /\ calls[j] = NoHandler
    /\ calls' = [calls EXCEPT ![j] = [op |-> "continue_task", pc |-> "queries"]]
    /\ UNCHANGED task_storage
    /\ UNCHANGED <<treeVars, orderVars, reportVars>>

\* start_new_task: generate_clarification_prompt has returned
Clarify(j) ==
    /\ calls[j] = [op |-> "start_new_task", pc |-> "clarify"]
    /\ \E clarification_result \in {"CONFIRM:", "QUESTIONS:"} :
        IF clarification_result = "CONFIRM:"
        THEN /\ task_storage' = [task_storage EXCEPT
                    ![j].message = "confirmed",
                    ![j].status = "pending",
                    ![j].clarification_prompt = clarification_result]
             /\ calls' = [calls EXCEPT ![j].pc = "queries"]
        ELSE /\ task_storage' = [task_storage EXCEPT
                    ![j].status = "awaiting_confirmation",
                    ![j].clarification_prompt = clarification_result,
                    ![j].message = "awaiting"]
             /\ calls' = [calls EXCEPT ![j] = NoHandler]
    /\ UNCHANGED <<treeVars, orderVars, reportVars>>

\* start_new_task and continue_task: generate_final_queries_with_confirmation
\* has returned or raised; on a list, run_background_task is awaited
GenerateQueries(j) ==
    /\ calls[j].pc = "queries"
    /\ \/ /\ task_storage' = [task_storage EXCEPT
                    ![j].status = "failed",
                    ![j].message = IF calls[j].op = "continue_task"
                                   THEN "failed_after_confirmation"
                                   ELSE "failed_initial"]
          /\ calls' = [calls EXCEPT ![j] = NoHandler]
       \/ \E n \in 0..(MaxQueries + 1) :
            LET queued == [task_storage[j] EXCEPT !.final_queries = FinalQueries(n),
                                                  !.message = "queued"]
                started == RunBackgroundTask(queued)
            IN  /\ task_storage' = [task_storage EXCEPT ![j] = started.task]
                /\ calls' = [calls EXCEPT ![j] =
                                IF started.pc = "return" THEN NoHandler
                                ELSE [calls[j] EXCEPT !.pc = started.pc]]
    /\ UNCHANGED <<treeVars, orderVars, reportVars>>

\* process_task: run_searches has returned and the results are stored, or
\* something in the try block raised
RunSearches(j) ==
    /\ calls[j].pc = "run_searches"
    /\ \E outcome \in {"completed", "failed"} :
        task_storage' = [task_storage EXCEPT
            ![j].status = outcome,
            ![j].message = IF outcome = "completed" THEN "completed" ELSE "task_failed"]
    /\ calls' = [calls EXCEPT ![j] = NoHandler]
    /\ UNCHANGED <<treeVars, orderVars, reportVars>>

HandlerStep(j) == Clarify(j) \/ GenerateQueries(j) \/ RunSearches(j)

InitAssistant ==
    /\ AssistantIdle
    /\ TreeIdle
    /\ OrderIdle
    /\ ReportIdle

NextAssistant ==
    \/ \E j \in Jobs : SubmitTask(j)
    \/ \E j \in Jobs : ConfirmTask(j)
    \/ \E j \in Jobs : Clarify(j)
    \/ \E j \in Jobs : GenerateQueries(j)
    \/ \E j \in Jobs : RunSearches(j)

\* The handlers are coroutines of one event loop: when the call a handler
\* awaits returns or raises, the handler goes on. Nothing makes a client call.
SpecAssistant ==
    InitAssistant /\ [][NextAssistant]_vars /\ \A j \in Jobs : WF_vars(HandlerStep(j))

\* ================================================================ claims
Values(f) == {f[k] : k \in DOMAIN f}

Count(seq, x) == Cardinality({i \in DOMAIN seq : seq[i] = x})

LastOf(seq) == seq[Len(seq)]

RootDone == stack = <<>> /\ returned.kind # "none"

\* C1: a node whose depth >= max_depth never runs _assess_complexity or
\* _decompose_task and creates no child; its process_task goes straight to
\* _solve_task and returns a Simple result carrying a solution.
C1_MaxDepthSolvesDirectly ==
    /\ \A i \in DOMAIN stack :
            stack[i].depth >= max_recursion_depth
                => stack[i].pc = "start" /\ stack[i].trace = <<>> /\ stack[i].child_nodes = <<>>
    /\ (returned.kind # "none" /\ returned.node.depth >= max_recursion_depth)
            => /\ returned.kind = "simple"
               /\ returned.solution # "none"
               /\ returned.node.trace = <<"_solve_task", "_store_in_knowledge_base">>
               /\ returned.node.gpt_calls = <<"solve">>
               /\ returned.node.child_nodes = <<>>
               /\ assessed = NoAssessment
               /\ decomposed = NoDecomposition

C1_Witness ==
    /\ returned.kind = "simple"
    /\ returned.node.depth >= max_recursion_depth
    /\ returned.node.gpt_calls = <<"solve">>

\* C2: every assessment _assess_complexity returns that carries a
\* complexity_score below the threshold has is_complex = false.
C2_ThresholdOverride ==
    (assessed.path # "none" /\ assessed.has_score /\ assessed.score < COMPLEXITY_THRESHOLD)
        => ~assessed.is_complex

\* C3: the key set of a Complex result's results mapping is exactly the set of
\* ids of its subtasks, which is the set of ids dispatched to child nodes.
C3_ChildResultKeys ==
    returned.kind = "complex"
        => /\ DOMAIN returned.node.results
                = {returned.node.subtasks[i].id : i \in DOMAIN returned.node.subtasks}
           /\ DOMAIN returned.node.results
                = {LastOf(returned.node.child_nodes[i]) : i \in DOMAIN returned.node.child_nodes}

C3_Witness ==
    /\ returned.kind = "complex"
    /\ "error" \in Values(returned.node.results)
    /\ "simple" \in Values(returned.node.results)

\* C4: a subtask whose processing raises is recorded as an error entry and
\* does not stop its parent: the parent stays in its loop, every subtask of the
\* list is dispatched, each entry of the returned Complex result is the outcome
\* of the (last) child processed under that id, an error entry exactly when
\* that child raised.
C4_Entries ==
    returned.kind = "complex"
        => LET node == returned.node
           IN /\ Len(node.child_nodes) = Len(node.subtasks)
              /\ Len(node.outcomes) = Len(node.subtasks)
              /\ \A i \in DOMAIN node.subtasks :
                    (\A j \in DOMAIN node.subtasks : j > i => node.subtasks[j].id # node.subtasks[i].id)
                        => node.results[node.subtasks[i].id]
                             = IF node.outcomes[i] = "raised" THEN "error" ELSE node.outcomes[i]

C4_ChildRaiseCaught ==
    (Len(stack) >= 2 /\ returned'.kind = "raised" /\ returned'.node.node_id = Top.node_id)
        => /\ Len(stack') = Len(stack) - 1
           /\ stack'[Len(stack')].pc = "loop"
           /\ stack'[Len(stack')].results[LastOf(Top.node_id)] = "error"

C5_RootAlwaysReturns ==
    ~(RootDone /\ returned.kind = "raised" /\ returned.fault = "summary")

\* C6: a decomposing node dispatches at most 5 subtasks, and they are the
\* first (up to) 5 items of the decomposer's output, in the output's order.
FanOutCapped(node) ==
    /\ Len(node.subtasks) <= 5
    /\ Len(node.subtasks) = IF Len(node.decomposer_output) > 5 THEN 5
                            ELSE Len(node.decomposer_output)
    /\ \A i \in DOMAIN node.subtasks : node.subtasks[i] = node.decomposer_output[i]
    /\ Len(node.child_nodes) <= Len(node.subtasks)
    /\ \A i \in DOMAIN node.child_nodes : LastOf(node.child_nodes[i]) = node.subtasks[i].id

C6_FanOutCapped ==
    /\ \A i \in DOMAIN stack : FanOutCapped(stack[i])
    /\ returned.kind # "none" => FanOutCapped(returned.node)
    /\ decomposed.rung # "none" => Top.decomposer_output = decomposed.items

C6_Witness ==
    /\ returned.kind = "complex"
    /\ Len(returned.node.decomposer_output) > 5
    /\ Len(returned.node.child_nodes) = 5

\* C7: at depth 0 with max_depth 3, assessed complex with score 0.9, n <= 5
\* subtasks, every child processed without raising: the result is Complex, has
\* exactly n entries, and a summary from one completion call.
C7_ScenarioB ==
    (/\ RootDone
     /\ returned.kind # "raised"
     /\ max_recursion_depth = 3
     /\ returned.node.depth = 0
     /\ root_assessment.is_complex
     /\ root_assessment.has_score
     /\ root_assessment.score = 9
     /\ Len(returned.node.decomposer_output) <= 5
     /\ "raised" \notin Range(returned.node.outcomes))
        => /\ returned.kind = "complex"
           /\ Cardinality(DOMAIN returned.node.results) = Len(returned.node.decomposer_output)
           /\ Count(returned.node.gpt_calls, "summarize") = 1
           /\ returned.summary # "none"

\* C8: a run through the agent with max_depth 0 returns a Simple result and
\* leaves in the knowledge store an entry under the root's node_id whose
\* task_type is max_depth_reached.
C8_ScenarioA ==
    (via_agent /\ max_recursion_depth = 0 /\ RootDone)
        => /\ returned.kind = "simple"
           /\ returned.node.node_id \in DOMAIN knowledge_base.entries
           /\ knowledge_base.entries[returned.node.node_id] = "max_depth_reached"

\* ---- dependency resolver
ListedIds == {tasks[i].id : i \in DOMAIN tasks}

RECURSIVE Peel(_)
Peel(ids) ==
    LET free == {x \in ids : \A i \in DOMAIN tasks :
                    tasks[i].id = x => tasks[i].depends_on \cap ids = {}}
    IN IF free = {} THEN ids ELSE Peel(ids \ free)

Cyclic == Peel(ListedIds) # {}

PositionIn(seq, id) == CHOOSE i \in DOMAIN seq : seq[i].id = id

\* C9: for an acyclic list of tasks with distinct ids, in any input order,
\* every task of the result comes after all the listed tasks it depends on.
C9_DependenciesFirst ==
    (rpc = "done" /\ ~Cyclic)
        => \A i \in DOMAIN ordered :
              \A dep \in ordered[i].depends_on \cap ListedIds :
                  PositionIn(ordered, dep) < i

\* C10: for a cyclic list the result is the input in its original order, and
\* the original-order branch is taken only when there is a cycle.
C10_CycleFallback ==
    rpc = "done"
        => /\ Cyclic => ordered = tasks
           /\ fallback => Cyclic

\* C11: ordering is idempotent on lists with distinct ids: ordering the
\* result again gives the result, and an acyclic list that is already in
\* dependency order comes back unchanged.
InDependencyOrder(ts) ==
    \A i \in DOMAIN ts :
        \A dep \in ts[i].depends_on \cap {ts[j].id : j \in DOMAIN ts} :
            PositionIn(ts, dep) < i

C11_Idempotent ==
    rpc = "done"
        => /\ ordered = ResolveExecutionOrder(tasks)
           /\ ResolveExecutionOrder(ordered) = ordered
           /\ (~Cyclic /\ InDependencyOrder(tasks)) => ordered = tasks

C11_Witness ==
    /\ rpc = "done"
    /\ Len(tasks) = 3
    /\ ~Cyclic
    /\ InDependencyOrder(tasks)
    /\ \E i \in DOMAIN tasks : tasks[i].depends_on \cap ListedIds # {}
    /\ ResolveExecutionOrder(ordered) = ordered

\* C12: the depth bounds the walk. Every node sits at the depth of its place
\* in the chain of calls, no deeper than max_depth; a node has issued no model
\* call before its depth check, and one at depth >= max_depth issues only the
\* call of the direct solve; and when every awaited call returns, the root's
\* process_task returns.
C12_DepthCheckFirst ==
    /\ \A i \in DOMAIN stack :
            /\ stack[i].depth = i - 1
            /\ stack[i].depth <= max_recursion_depth
            /\ stack[i].pc = "start" => stack[i].gpt_calls = <<>>
            /\ stack[i].gpt_calls # <<>> => stack[i].depth < max_recursion_depth
    /\ (returned.kind # "none" /\ returned.node.depth >= max_recursion_depth)
            => returned.node.gpt_calls = <<"solve">>

C12_DepthBoundsWork == []C12_DepthCheckFirst /\ <>RootDone

C12_Witness ==
    /\ RootDone
    /\ max_recursion_depth = 2
    /\ decompositions < MaxDecompositions
    /\ returned.kind = "complex"
    /\ Len(returned.node.child_nodes) = 5

\* C13: the direct solve never raises. When the completion call of
\* _solve_task fails (GPT hands back the error text, or no message at all),
\* the node still returns a Simple result whose solution is an error text,
\* and no process_task that reached _solve_task ends with an exception.
C13_DirectSolveNeverRaises ==
    /\ returned.solve_reply # "none"
            => /\ returned.kind = "simple"
               /\ returned.solution \in Solutions(returned.node)
               /\ "_solve_task" \in Range(returned.node.trace)
    /\ returned.solve_reply \in {"error_text", "no_message"}
            => returned.solution \in {"error_text", "degraded"}
    /\ returned.kind = "raised" => "_solve_task" \notin Range(returned.node.trace)

C13_Witness ==
    /\ returned.kind = "simple"
    /\ returned.solve_reply = "no_message"
    /\ returned.solution = "degraded"

\* C14: _assess_complexity always returns an assessment, and when the
\* completion call failed (a transport or service error, or no message) the
\* assessment's is_complex is exactly depth < 1.
AssessedDepth == IF returned.kind # "none" THEN returned.node.depth ELSE Top.depth

C14_AssessorDegrades ==
    assess_reply # "none"
        => /\ assessed.path \in {"structured", "keyword", "error"}
           /\ assess_reply \in {"error_text", "no_message"}
                => assessed.is_complex = (AssessedDepth < 1)

\* C15: the recovery ladder stops at the first rung that succeeds; a
\* completion that is a valid JSON array of subtasks inside a fenced block
\* yields exactly the subtasks of that array, from the structured rung.
C15_LadderOrder ==
    (decomposed.form = "json_list" /\ decomposed.fence # "none")
        => /\ decomposed.rung = "json"
           /\ decomposed.items = decomposed.content

\* ids of a sequence of sections, in order
SectionIds(sections) == [i \in DOMAIN sections |-> sections[i].id]

\* C16: sections are generated in outline order, one at a time: the call for
\* the top-level section with index i is issued when exactly the i sections
\* before it are in the report, each with its subsections dealt with, and the
\* finished report has the outline's section ids in the outline's order.
C16_OutlineOrder ==
    /\ prompt.level = "top"
        => /\ prompt.index = prompt.appended
           /\ prompt.id = outline.sections[prompt.index + 1].id
           /\ SubSeq(SectionIds(content), 1, prompt.index)
                = SubSeq(SectionIds(outline.sections), 1, prompt.index)
           /\ \A k \in 1..prompt.index :
                SectionIds(content[k].subsections)
                    \in {<<>>, outline.sections[k].subsections}
    /\ qpc = "done" => SectionIds(content) = SectionIds(outline.sections)

C16_Witness ==
    /\ qpc = "done"
    /\ Len(content) >= 2
    /\ \E k \in DOMAIN content : Len(content[k].subsections) >= 2

\* C17: a failed section call costs that section's content only: the finished
\* report has every section and every subsection of the outline.
C17_FailuresIsolated ==
    qpc = "done"
        => /\ SectionIds(content) = SectionIds(outline.sections)
           /\ \A k \in DOMAIN content :
                SectionIds(content[k].subsections) = outline.sections[k].subsections

\* C18: the prompt of a section with index >= 1 that has previously generated
\* sections carries excerpts of one or two of them, the immediately preceding.
C18_PreviousExcerpts ==
    (prompt.level # "none" /\ prompt.index >= 1 /\ prompt.appended >= 1)
        => Len(prompt.excerpts) \in 1..2

\* C19: when the outline call fails or its completion is not a structured
\* outline, the outline used is the default one with the five sections
\* introduction, methodology, findings, analysis, conclusion.
C19_DefaultOutline ==
    (outline_reply.status # "none"
        /\ (outline_reply.status # "completion" \/ outline_reply.form # "outline"))
        => /\ outline.usable
           /\ SectionIds(outline.sections) = DefaultSectionIds

\* C20: the progress values delivered to the callback in one run lie in
\* 0..100 and never decrease from one event to the next.
C20_ProgressMonotonic ==
    /\ \A k \in DOMAIN progress_events : progress_events[k] \in 0..100
    /\ \A k \in 1..(Len(progress_events) - 1) : progress_events[k] <= progress_events[k + 1]

C20_Witness ==
    /\ qpc = "done"
    /\ impl = "agent"
    /\ Len(outline.sections) >= 2
    /\ progress_events[Len(progress_events)] = 95
    /\ \E k \in DOMAIN progress_events : progress_events[k] \in 86..94

\* C21: GPT signals a failure as a fault, never as data: when the request
\* fails or the model id is unknown the caller gets no message, and every
\* message the caller gets comes from an answer of the API.
C21_FailureIsFault ==
    /\ gpt_call.outcome \in {"request_failed", "not_sent"}
        => gpt_call.reply \notin {"completion", "error_text", "null_content"}
    /\ gpt_call.reply \in {"completion", "error_text", "null_content"}
        => gpt_call.outcome \in {"message", "null_content"}

\* C22: at depth >= max_depth - 1 _assess_complexity answers not complex
\* without a completion call, and such a node is never decomposed.
Penultimate(node) == node.depth >= max_recursion_depth - 1

C22_PenultimateShortCircuit ==
    /\ (assessed.path # "none" /\ AssessedDepth >= max_recursion_depth - 1)
        => /\ ~assessed.is_complex
           /\ assessed.path = "depth"
           /\ assess_reply = "none"
           /\ decomposed = NoDecomposition
    /\ \A i \in DOMAIN stack :
            Penultimate(stack[i])
                => /\ stack[i].pc \in {"start", "retrieved"}
                   /\ stack[i].gpt_calls = <<>>
                   /\ stack[i].child_nodes = <<>>
    /\ (returned.kind # "none" /\ Penultimate(returned.node))
            => /\ returned.kind = "simple"
               /\ returned.node.gpt_calls = <<"solve">>
               /\ returned.node.child_nodes = <<>>
               /\ "_decompose_task" \notin Range(returned.node.trace)

C22_Witness ==
    /\ returned.kind = "simple"
    /\ returned.node.depth = max_recursion_depth - 1
    /\ returned.node.depth >= 1
    /\ assessed.path = "depth"
    /\ assess_reply = "none"
    /\ "_assess_complexity" \in Range(returned.node.trace)

\* C23: every subtask of a list _decompose_task returns has a non-empty id
\* and a non-empty description.
C23_SubtasksWellFormed ==
    decomposed.rung # "none"
        => \A i \in DOMAIN decomposed.items :
                /\ decomposed.items[i].id # ""
                /\ decomposed.items[i].text

\* C24: the canned rung, by whatever route it is reached, gives task1, task2,
\* task3 with descriptions built from the task text _decompose_task was given.
C24_CannedFromTask ==
    decomposed.rung = "canned"
        => /\ decomposed.items = CannedSubtasks
           /\ [i \in 1..3 |-> decomposed.items[i].id] = <<"task1", "task2", "task3">>
           /\ decomposed.about = "task"

\* C25: the summary or the solution of the root's result goes into the prompt
\* of the first section of the report only, and into no other section's or
\* subsection's prompt.
C25_BackgroundInFirstOnly ==
    prompt.level # "none"
        => (prompt.background <=> (prompt.level = "top" /\ prompt.index = 0))

\* C26: retrieval is gated by the depth and best effort: a node at depth >= 2
\* issues neither search and goes from its depth check to the assessment; at
\* depth <= 1 a failing search ends nothing: process_task stands where it
\* stands after a search that worked, about to assess, and no result of any
\* kind has been produced by the retrieval.
C26_RetrievalBestEffort ==
    /\ \A i \in DOMAIN stack :
            /\ stack[i].pc = "retrieved" => stack[i].depth <= 1
            /\ "_enhance_with_retrieval" \in Range(stack[i].trace) => stack[i].depth <= 1
    /\ (returned.kind # "none" /\ returned.node.depth >= 2)
            => "_enhance_with_retrieval" \notin Range(returned.node.trace)
    /\ (returned.kind = "raised" => returned.fault # "retrieval")
    /\ retrieval # NoRetrieval
        => /\ ~retrieval.raised
           /\ returned = NoResult
           /\ stack # <<>>
           /\ Top.depth <= 1
           /\ Top.pc = "retrieved"
           /\ Top.trace = <<"_enhance_with_retrieval">>
           /\ Top.gpt_calls = <<>>
           /\ (retrieval.web = "failed" => "web_search" \notin retrieval.keys)
           /\ (retrieval.kb = "failed" => "kb_search" \notin retrieval.keys)
    /\ (returned.kind = "simple" /\ returned.node.depth < max_recursion_depth)
            => "_assess_complexity" \in Range(returned.node.trace)

C26_Witness ==
    /\ retrieval.kb = "failed"
    /\ retrieval.searches = <<"web", "kb">>
    /\ Top.depth = 1
    /\ Top.pc = "retrieved"

\* C27: node ids are collision-free: the children a node creates have
\* pairwise distinct node ids, for every list the decomposer returns.
DistinctChildren(node) ==
    \A i, j \in DOMAIN node.child_nodes : i # j => node.child_nodes[i] # node.child_nodes[j]

C27_NodeIdsDistinct ==
    /\ \A i \in DOMAIN stack : DistinctChildren(stack[i])
    /\ returned.kind # "none" => DistinctChildren(returned.node)

\* C29: every node created for a run of the agent uses the model id the agent
\* was constructed with, the one its outline and section calls use.
C29_ModelCarried ==
    impl = "agent" => \A i \in DOMAIN stack : stack[i].model = report_model

\* C30: in a walk that starts at depth 0 with max_depth >= 1 every node has
\* depth <= max_depth - 1, a child is one deeper than its parent, and no node
\* takes the max-depth path of process_task.
MaxDepthPath(node) == node.trace = <<"_solve_task", "_store_in_knowledge_base">>

C30_ChildrenBelowMaxDepth ==
    max_recursion_depth >= 1
        => /\ \A i \in DOMAIN stack :
                /\ stack[i].depth <= max_recursion_depth - 1
                /\ i > 1 => stack[i].depth = stack[i - 1].depth + 1
                /\ \A k \in DOMAIN stack[i].child_nodes :
                        Len(stack[i].child_nodes[k]) = Len(stack[i].node_id) + 1
           /\ returned.kind # "none"
                => /\ returned.node.depth <= max_recursion_depth - 1
                   /\ ~MaxDepthPath(returned.node)
           /\ "max_depth_reached" \notin Values(knowledge_base.entries)

C30_Witness ==
    /\ max_recursion_depth = 3
    /\ Len(stack) = 2
    /\ returned.kind = "simple"
    /\ returned.node.depth = 2
    /\ returned.node.depth = max_recursion_depth - 1
    /\ "_assess_complexity" \in Range(returned.node.trace)

\* C28: after continue_task is called on a task in status
\* awaiting_confirmation and the final queries are generated (a non-empty
\* list), the task goes to background processing: process_task runs and the
\* status becomes completed or failed instead of staying awaiting_confirmation.
\* (When the generation raises or gives no query the status becomes failed.)
C28_ConfirmedTaskIsProcessed ==
    \A j \in Jobs :
        (/\ calls[j] = [op |-> "continue_task", pc |-> "queries"]
         /\ task_storage[j].status = "awaiting_confirmation")
            ~> (task_storage[j].status \in {"completed", "failed"})

====
